---- MODULE Spec2Model ----
(***************************************************************************)
(* bg-ping: background ICMP connectivity prober.                           *)
(*                                                                         *)
(* Two programs are modelled over the same state:                          *)
(*   Spec        the multi-target program (main.go): one pingServer, one   *)
(*               pingClient goroutine per target, registry keyed by id.    *)
(*   SpecSingle  the single-target program: one pingServer filtering by    *)
(*               source address, one pingClient with a random identifier   *)
(*               and a global outage flag.                                 *)
(*                                                                         *)
(* Time is abstracted: time.After(1900ms) may fire whenever a client is in *)
(* its select, time.Sleep(900ms) ends whenever the scheduler says so.      *)
(***************************************************************************)
EXTENDS Integers, Sequences, FiniteSets, TLC

\* ---------------------------------------------------------------- bounds
MaxSeq == 2       \* iterations a client completes
MaxSock == 1      \* datagrams the socket buffer holds
MaxFaults == 1    \* injected I/O faults (failed reads, parses, sends)

\* The validated target lists main is started with.
TargetLists == { <<"10.0.0.1">>, <<"10.0.0.1", "10.0.0.2">> }

\* The ICMP echo identifier and sequence fields are 16 bits wide.
WireSeq(s) == s % 65536

VARIABLES
    pingIPs,      \* the validated target list main was started with
    clients,      \* keys of the registry pingClientList (single: {processID})
    pc,           \* pc[i]: where pingClient i is: "send", "wait" (select), "sleep", "exited"
    processSeq,   \* processSeq[i]: the local sequence counter of pingClient i
    outage,       \* outage[i]: client.outage of pingClient i (single: global outage)
    srv,          \* pingServer: [pc |-> "read" | "handoff" | "exited", to |-> channel, pkt |-> packet]
    sock,         \* datagrams queued on the raw ICMP socket, oldest first
    log,          \* records written to the log file, by task (0: main, server, signals)
    sinkFailed,   \* a logFile.WriteString has failed
    proc,         \* "running", "exit0" (signal), "exit1" (log.Fatalf)
    faults,       \* injected I/O faults so far (bounded by MaxFaults)
    seen,         \* seen[i]: the ways a select of pingClient i has ended so far
    wire          \* wire[i]: the sequences of the echo requests client i has written

vars == <<pingIPs, clients, pc, processSeq, outage, srv, sock, log, sinkFailed, proc, faults, seen, wire>>

\* ---------------------------------------------------------------- helpers
NoPkt == [id |-> 0, seq |-> 0]

Idle == [pc |-> "read", to |-> 0, pkt |-> NoPkt]

\* (mutant) a failed write is not fatal.
recordEventNoExit(st, src, msg, ok) ==
    IF st.proc # "running" THEN st
    ELSE IF ok THEN [st EXCEPT !.log[src] = Append(@, msg)]
    ELSE [st EXCEPT !.sinkFailed = TRUE]

\* The sink: one recordEvent call on the log state st by task src.
\* ok is whether logFile.WriteString succeeds; on failure log.Fatalf exits.
recordEvent(st, src, msg, ok) ==
    IF st.proc # "running" THEN st
    ELSE IF ok THEN [st EXCEPT !.log[src] = Append(@, msg)]
    ELSE [st EXCEPT !.sinkFailed = TRUE, !.proc = "exit1"]

Sink == [log |-> log, sinkFailed |-> sinkFailed, proc |-> proc]

SetSink(st) ==
    /\ log' = st.log
    /\ sinkFailed' = st.sinkFailed
    /\ proc' = st.proc

\* How a select outcome relates to the outstanding request (id, seq).
Classify(id, seq, p) ==
    IF p.id # id THEN "foreign"
    ELSE IF p.seq # WireSeq(seq) THEN "stale"
    ELSE "match"

\* ------------------------------------------------------- multi-target program
\* (mutant) two targets share one registry key.
RegistryCollide(ips) == { (id \div 2) + 1 : id \in 0 .. (Len(ips) - 1) }

\* main: the registry maps id+1 to the client of the id-th validated target.
Registry(ips) == { id + 1 : id \in 0 .. (Len(ips) - 1) }

\* An identifier no probe of the multi-target registry carries.
StrayID == Cardinality(UNION { Registry(t) : t \in TargetLists }) + 1

Init ==
    /\ pingIPs \in TargetLists
    /\ clients = Registry(pingIPs)
    /\ pc = [i \in clients |-> "send"]
    /\ processSeq = [i \in clients |-> 1]
    /\ outage = [i \in clients |-> FALSE]
    /\ srv = Idle
    /\ sock = <<>>
    /\ log = [i \in clients \cup {0} |-> IF i = 0 THEN <<"start">> ELSE <<>>]
    /\ sinkFailed = FALSE
    /\ proc = "running"
    /\ faults = 0
    /\ seen = [i \in clients |-> {}]
    /\ wire = [i \in clients |-> {}]

\* os.Exit: every goroutine ends and the socket is closed with the process.
Exited ==
    /\ pc' = [i \in clients |-> "exited"]
    /\ srv' = [Idle EXCEPT !.pc = "exited"]
    /\ sock' = <<>>
    /\ UNCHANGED <<pingIPs, wire, clients, processSeq, outage, faults, seen>>

\* (mutant) the outage flag is tested the wrong way round.
CaseReplyInverted(clientID, o, p) ==
    [outage |-> IF p.id = clientID THEN FALSE ELSE o,
     msgs   |-> IF p.id = clientID /\ ~o THEN <<"cleared">> ELSE <<>>]

\* (mutant) a reply records the clearing but leaves the flag set.
CaseReplyNoReset(clientID, o, p) ==
    [outage |-> o,
     msgs   |-> IF p.id = clientID /\ o THEN <<"cleared">> ELSE <<>>]

\* select, case p := <-client.control
CaseReply(clientID, o, p) ==
    [outage |-> IF p.id = clientID THEN FALSE ELSE o,
     msgs   |-> IF p.id = clientID /\ o THEN <<"cleared">> ELSE <<>>]

\* (mutant) the timeout does not set the flag.
CaseTimeoutNoLatch(o) ==
    [outage |-> o,
     msgs   |-> IF ~o THEN <<"detected">> ELSE <<>>]

\* (mutant) the timeout is logged whatever the flag is.
CaseTimeoutAlways(o) ==
    [outage |-> TRUE,
     msgs   |-> <<"detected">>]

\* select, case <-time.After(1900 * time.Millisecond)
CaseTimeout(o) ==
    [outage |-> TRUE,
     msgs   |-> IF ~o THEN <<"detected">> ELSE <<>>]

\* (mutant) pingClient returns after its first select.
AfterSelectReturn(s) == [seq |-> s + 1, pc |-> "exited"]

\* The statements after the select: processSeq++ and time.Sleep(900ms).
AfterSelect(s) == [seq |-> s + 1, pc |-> "sleep"]

\* Record the (at most one) message of a select case.
RecordAll(st, src, msgs, ok) ==
    IF msgs = <<>> THEN st ELSE recordEvent(st, src, msgs[1], ok)

\* (mutant) a failed send skips the select of that iteration.
AfterSendContinue(mOK, wOK) == IF mOK /\ wOK THEN "wait" ELSE "send"

\* Where the loop goes after marshal and write: neither error branch leaves it.
AfterSend(mOK, wOK) == "wait"

\* pingClient, top of the loop: Marshal succeeds or not (mOK), WriteTo succeeds
\* or not (wOK); s1, s2: whether the write of each error record succeeds.
SendWith(i, mOK, wOK, s1, s2) ==
    LET st1 == IF mOK THEN Sink ELSE recordEvent(Sink, i, "marshalErr", s1)
        st2 == IF wOK THEN st1 ELSE recordEvent(st1, i, "sendErr", s2)
    IN /\ SetSink(st2)
       /\ IF st2.proc = "running"
          THEN /\ pc' = [pc EXCEPT ![i] = AfterSend(mOK, wOK)]
               /\ wire' = IF mOK /\ wOK
                          THEN [wire EXCEPT ![i] = @ \cup {WireSeq(processSeq[i])}]
                          ELSE wire
               /\ faults' = IF mOK /\ wOK THEN faults ELSE faults + 1
               /\ UNCHANGED <<pingIPs, clients, processSeq, outage, srv, sock, seen>>
          ELSE Exited

\* pingClient, top of the loop: marshal and write the echo request.
Send(i) ==
    /\ proc = "running"
    /\ pc[i] = "send"
    /\ processSeq[i] <= MaxSeq
    /\ \/ SendWith(i, TRUE, TRUE, TRUE, TRUE)
       \/ /\ faults < MaxFaults
          /\ \E mOK \in BOOLEAN, wOK \in BOOLEAN, s1 \in BOOLEAN, s2 \in BOOLEAN :
              /\ ~(mOK /\ wOK)
              /\ mOK => s1
              /\ wOK => s2
              /\ SendWith(i, mOK, wOK, s1, s2)

\* pingClient, select: a packet is handed over on client.control
\* (the unbuffered channel: pingServer's send and this receive are one step).
Recv(i) ==
    /\ proc = "running"
    /\ pc[i] = "wait"
    /\ srv.pc = "handoff"
    /\ srv.to = i
    /\ \E ok \in BOOLEAN :
        LET r  == CaseReply(i, outage[i], srv.pkt)
            st == RecordAll(Sink, i, r.msgs, ok)
            n  == AfterSelect(processSeq[i])
        IN /\ (r.msgs = <<>>) => ok
           /\ SetSink(st)
           /\ IF st.proc = "running"
              THEN /\ srv' = Idle
                   /\ outage' = [outage EXCEPT ![i] = r.outage]
                   /\ processSeq' = [processSeq EXCEPT ![i] = n.seq]
                   /\ pc' = [pc EXCEPT ![i] = n.pc]
                   /\ seen' = [seen EXCEPT ![i] = @ \cup {Classify(i, processSeq[i], srv.pkt)}]
                   /\ UNCHANGED <<pingIPs, wire, clients, sock, faults>>
              ELSE Exited

\* (mutant) the outage flag is one variable shared by all clients.
TimeoutShared(i) ==
    /\ proc = "running"
    /\ pc[i] = "wait"
    /\ \E ok \in BOOLEAN :
        LET r  == CaseTimeout(outage[i])
            st == RecordAll(Sink, i, r.msgs, ok)
            n  == AfterSelect(processSeq[i])
        IN /\ (r.msgs = <<>>) => ok
           /\ SetSink(st)
           /\ IF st.proc = "running"
              THEN /\ outage' = [j \in clients |-> r.outage]
                   /\ processSeq' = [processSeq EXCEPT ![i] = n.seq]
                   /\ pc' = [pc EXCEPT ![i] = n.pc]
                   /\ seen' = [seen EXCEPT ![i] = @ \cup {"timeout"}]
                   /\ UNCHANGED <<pingIPs, wire, clients, srv, sock, faults>>
              ELSE Exited

\* pingClient, select: the 1900 ms timer fires first.
Timeout(i) ==
    /\ proc = "running"
    /\ pc[i] = "wait"
    /\ \E ok \in BOOLEAN :
        LET r  == CaseTimeout(outage[i])
            st == RecordAll(Sink, i, r.msgs, ok)
            n  == AfterSelect(processSeq[i])
        IN /\ (r.msgs = <<>>) => ok
           /\ SetSink(st)
           /\ IF st.proc = "running"
              THEN /\ outage' = [outage EXCEPT ![i] = r.outage]
                   /\ processSeq' = [processSeq EXCEPT ![i] = n.seq]
                   /\ pc' = [pc EXCEPT ![i] = n.pc]
                   /\ seen' = [seen EXCEPT ![i] = @ \cup {"timeout"}]
                   /\ UNCHANGED <<pingIPs, wire, clients, srv, sock, faults>>
              ELSE Exited

\* pingClient: time.Sleep(900 * time.Millisecond) returns.
Wake(i) ==
    /\ proc = "running"
    /\ pc[i] = "sleep"
    /\ pc' = [pc EXCEPT ![i] = "send"]
    /\ UNCHANGED <<pingIPs, wire, clients, processSeq, outage, srv, sock, log, sinkFailed, proc, faults, seen>>

\* icmp.ParseMessage(1, ...) fails on a datagram that is no ICMP message.
ParseFails(b) == b.type = "bad"

\* m.Body.(type) is *icmp.Echo for an echo reply and for an echo request alike.
EchoBody(b) == b.type \in {"reply", "request"}

\* (mutant) every echo goes to one client, whatever its identifier.
RouteAny(cl, b) == IF EchoBody(b) THEN {CHOOSE c \in cl : TRUE} ELSE {}

\* pingServer: the channels a parsed message is sent on.
Route(cl, b) == IF EchoBody(b) /\ b.id \in cl THEN {b.id} ELSE {}

\* (mutant) a failed read ends the receiver's loop.
ServerReadErrorReturns ==
    /\ proc = "running"
    /\ srv.pc = "read"
    /\ faults < MaxFaults
    /\ \E ok \in BOOLEAN :
        LET st == recordEvent(Sink, 0, "readErr", ok)
        IN /\ SetSink(st)
           /\ IF st.proc = "running"
              THEN /\ faults' = faults + 1
                   /\ srv' = [Idle EXCEPT !.pc = "exited"]
                   /\ UNCHANGED <<pingIPs, wire, clients, pc, processSeq, outage, sock, seen>>
              ELSE Exited

\* pingServer: ReadFrom returns an error.
ServerReadError ==
    /\ proc = "running"
    /\ srv.pc = "read"
    /\ faults < MaxFaults
    /\ \E ok \in BOOLEAN :
        LET st == recordEvent(Sink, 0, "readErr", ok)
        IN /\ SetSink(st)
           /\ IF st.proc = "running"
              THEN /\ faults' = faults + 1
                   /\ UNCHANGED <<pingIPs, wire, clients, pc, processSeq, outage, srv, sock, seen>>
              ELSE Exited

\* (mutant) the channel send does not block: the receiver reads on while a
\* packet is still waiting for its client.
ServerReadBuffered ==
    /\ proc = "running"
    /\ srv.pc \in {"read", "handoff"}
    /\ sock # <<>>
    /\ LET b == Head(sock) IN
       /\ ~ParseFails(b)
       /\ sock' = Tail(sock)
       /\ srv' = IF Route(clients, b) = {} THEN Idle
                 ELSE [pc  |-> "handoff",
                       to  |-> CHOOSE c \in Route(clients, b) : TRUE,
                       pkt |-> [id |-> b.id, seq |-> b.seq]]
       /\ UNCHANGED <<pingIPs, wire, clients, pc, processSeq, outage, log, sinkFailed, proc, faults, seen>>

\* pingServer, one turn of the loop up to the point where it blocks:
\* ReadFrom, ParseMessage, registry lookup.
ServerRead ==
    /\ proc = "running"
    /\ srv.pc = "read"
    /\ sock # <<>>
    /\ LET b == Head(sock) IN
       IF ParseFails(b)
       THEN \E ok \in BOOLEAN :
            LET st == recordEvent(Sink, 0, "parseErr", ok)
            IN /\ SetSink(st)
               /\ IF st.proc = "running"
                  THEN /\ sock' = Tail(sock)
                       /\ UNCHANGED <<pingIPs, wire, clients, pc, processSeq, outage, srv, faults, seen>>
                  ELSE Exited
       ELSE /\ sock' = Tail(sock)
            /\ srv' = IF Route(clients, b) = {} THEN Idle
                      ELSE [pc  |-> "handoff",
                            to  |-> CHOOSE c \in Route(clients, b) : TRUE,
                            pkt |-> [id |-> b.id, seq |-> b.seq]]
            /\ UNCHANGED <<pingIPs, wire, clients, pc, processSeq, outage, log, sinkFailed, proc, faults, seen>>

\* main's signal goroutine: SIGHUP, SIGINT, SIGTERM or SIGQUIT is captured.
Signal ==
    /\ proc = "running"
    /\ \E ok \in BOOLEAN :
        LET st == recordEvent(Sink, 0, "signal", ok)
        IN SetSink(IF st.proc = "running" THEN [st EXCEPT !.proc = "exit0"] ELSE st)
    /\ Exited

\* ------------------------------------------------------------- environment
\* Datagrams the raw socket can receive: echo replies to requests a client has
\* written (late and duplicated ones included), and foreign ICMP traffic.
Replies == { [type |-> "reply", id |-> i, seq |-> WireSeq(s)] : i \in clients, s \in 1 .. MaxSeq }

Foreign ==
    { [type |-> "request", id |-> i, seq |-> 1] : i \in clients }
    \cup { [type |-> "reply", id |-> StrayID, seq |-> 1],
           [type |-> "other", id |-> 0, seq |-> 0],
           [type |-> "bad", id |-> 0, seq |-> 0] }

Arrive(p) ==
    /\ proc = "running"
    /\ Len(sock) < MaxSock
    /\ p.type = "reply" /\ p.id \in clients => p.seq \in wire[p.id]
    /\ p.type = "bad" => faults < MaxFaults
    /\ sock' = Append(sock, p)
    /\ faults' = IF p.type = "bad" THEN faults + 1 ELSE faults
    /\ UNCHANGED <<pingIPs, wire, clients, pc, processSeq, outage, srv, log, sinkFailed, proc, seen>>

Next ==
    \/ \E i \in clients : Send(i)
    \/ \E i \in clients : Recv(i)
    \/ \E i \in clients : Timeout(i)
    \/ \E i \in clients : Wake(i)
    \/ ServerReadError
    \/ ServerRead
    \/ Signal
    \/ \E p \in Replies \cup Foreign : Arrive(p)

Spec == Init /\ [][Next]_vars

\* ------------------------------------------- multi-target program, scheduling
\* Every key a registry of the target lists holds.
AllIDs == UNION { Registry(t) : t \in TargetLists }

\* (mutant) the select has no timeout case.
NoTimeoutCase(i) == FALSE /\ Timeout(i)

\* select, the timer case under Go's rules: time.After is created when the
\* select is entered, so it cannot be ready before a send that is already
\* pending on client.control, and a send that finds the client parked in the
\* select completes at once. The timer therefore never wins against a
\* pending handoff; a timer that fired just before the receiver's send is the
\* interleaving Timeout, ServerRead.
TimerFires(i) ==
    /\ ~(srv.pc = "handoff" /\ srv.to = i)
    /\ Timeout(i)

NextFair ==
    \/ \E i \in clients : Send(i)
    \/ \E i \in clients : Recv(i)
    \/ \E i \in clients : TimerFires(i)
    \/ \E i \in clients : Wake(i)
    \/ ServerReadError
    \/ ServerRead
    \/ Signal
    \/ \E p \in Replies \cup Foreign : Arrive(p)

\* The Go scheduler runs every runnable goroutine: a client at the top of its
\* loop writes, a select with a pending handoff takes it, a select with none
\* ends by its timer, a sleep returns; the receiver reads what is queued.
\* Signals, faults and arriving datagrams are the environment's: no fairness.
Fairness ==
    /\ \A i \in AllIDs :
        /\ WF_vars(i \in clients /\ Send(i))
        /\ WF_vars(i \in clients /\ Recv(i))
        /\ WF_vars(i \in clients /\ TimerFires(i))
        /\ WF_vars(i \in clients /\ Wake(i))
    /\ WF_vars(ServerRead)

SpecFair == Init /\ [][NextFair]_vars /\ Fairness

\* ------------------------------------------------------ single-target program
\* processID := rand.Intn(65535): the values tried.
ProcessIDs == { 7 }

InitSingle ==
    /\ pingIPs = <<"10.0.0.1">>
    /\ \E processID \in ProcessIDs : clients = {processID}
    /\ pc = [i \in clients |-> "send"]
    /\ processSeq = [i \in clients |-> 1]
    /\ outage = [i \in clients |-> FALSE]
    /\ srv = Idle
    /\ sock = <<>>
    /\ log = [i \in clients \cup {0} |-> IF i = 0 THEN <<"start">> ELSE <<>>]
    /\ sinkFailed = FALSE
    /\ proc = "running"
    /\ faults = 0
    /\ seen = [i \in clients |-> {}]
    /\ wire = [i \in clients |-> {}]

\* The comparison of the single-target select: identifier and sequence.
SingleMatch(processID, seq, p) == p.id = processID /\ p.seq = seq

\* select, case p := <-control: what the loop does next.
SingleCaseReply(processID, seq, o, p) ==
    IF SingleMatch(processID, seq, p)
    THEN [outage |-> FALSE,
          msgs   |-> IF o THEN <<"cleared">> ELSE <<>>,
          seq    |-> seq + 1,
          pc     |-> "sleep"]
    ELSE [outage |-> o, msgs |-> <<>>, seq |-> seq, pc |-> "send"]

\* select, case <-time.After(1900 * time.Millisecond): what the loop does next.
SingleCaseTimeout(seq, o) ==
    [outage |-> TRUE,
     msgs   |-> IF ~o THEN <<"detected">> ELSE <<>>,
     seq    |-> seq,
     pc     |-> "send"]

\* pingClient (single-target), top of the loop: marshal and write the request.
SingleSend(i) == Send(i)

\* pingClient (single-target), select: a packet is handed over on control.
SingleRecv(i) ==
    /\ proc = "running"
    /\ pc[i] = "wait"
    /\ srv.pc = "handoff"
    /\ srv.to = i
    /\ \E ok \in BOOLEAN :
        LET r  == SingleCaseReply(i, processSeq[i], outage[i], srv.pkt)
            st == RecordAll(Sink, i, r.msgs, ok)
        IN /\ (r.msgs = <<>>) => ok
           /\ SetSink(st)
           /\ IF st.proc = "running"
              THEN /\ srv' = Idle
                   /\ outage' = [outage EXCEPT ![i] = r.outage]
                   /\ processSeq' = [processSeq EXCEPT ![i] = r.seq]
                   /\ pc' = [pc EXCEPT ![i] = r.pc]
                   /\ seen' = [seen EXCEPT ![i] = @ \cup {Classify(i, processSeq[i], srv.pkt)}]
                   /\ UNCHANGED <<pingIPs, wire, clients, sock, faults>>
              ELSE Exited

\* pingClient (single-target), select: the 1900 ms timer fires first.
SingleTimeout(i) ==
    /\ proc = "running"
    /\ pc[i] = "wait"
    /\ \E ok \in BOOLEAN :
        LET r  == SingleCaseTimeout(processSeq[i], outage[i])
            st == RecordAll(Sink, i, r.msgs, ok)
        IN /\ (r.msgs = <<>>) => ok
           /\ SetSink(st)
           /\ IF st.proc = "running"
              THEN /\ outage' = [outage EXCEPT ![i] = r.outage]
                   /\ processSeq' = [processSeq EXCEPT ![i] = r.seq]
                   /\ pc' = [pc EXCEPT ![i] = r.pc]
                   /\ seen' = [seen EXCEPT ![i] = @ \cup {"timeout"}]
                   /\ UNCHANGED <<pingIPs, wire, clients, srv, sock, faults>>
              ELSE Exited

\* pingClient (single-target): time.Sleep(900 * time.Millisecond) returns.
SingleWake(i) == Wake(i)

\* pingServer (single-target): ReadFrom returns an error.
SingleServerReadError == ServerReadError

\* pingServer (single-target), one turn of the loop up to where it blocks:
\* ReadFrom, the source address filter, ParseMessage, the send on control.
SingleServerRead ==
    /\ proc = "running"
    /\ srv.pc = "read"
    /\ sock # <<>>
    /\ LET b == Head(sock) IN
       IF b.from # "target"
       THEN /\ sock' = Tail(sock)
            /\ UNCHANGED <<pingIPs, wire, clients, pc, processSeq, outage, srv, log, sinkFailed, proc, faults, seen>>
       ELSE IF ParseFails(b)
       THEN \E ok \in BOOLEAN :
            LET st == recordEvent(Sink, 0, "parseErr", ok)
            IN /\ SetSink(st)
               /\ IF st.proc = "running"
                  THEN /\ sock' = Tail(sock)
                       /\ UNCHANGED <<pingIPs, wire, clients, pc, processSeq, outage, srv, faults, seen>>
                  ELSE Exited
       ELSE /\ sock' = Tail(sock)
            /\ srv' = IF EchoBody(b)
                      THEN [pc  |-> "handoff",
                            to  |-> CHOOSE c \in clients : TRUE,
                            pkt |-> [id |-> b.id, seq |-> b.seq]]
                      ELSE Idle
            /\ UNCHANGED <<pingIPs, wire, clients, pc, processSeq, outage, log, sinkFailed, proc, faults, seen>>

\* main's signal goroutine (single-target): fmt.Fprintf to the log, then exit.
SingleSignal ==
    /\ proc = "running"
    /\ log' = [log EXCEPT ![0] = Append(@, "signal")]
    /\ proc' = "exit0"
    /\ sinkFailed' = sinkFailed
    /\ Exited

\* Datagrams the single-target socket can receive.
SingleReplies ==
    { [type |-> "reply", id |-> i, seq |-> WireSeq(s), from |-> "target"] :
        i \in clients, s \in 1 .. MaxSeq }

SingleForeign ==
    { [type |-> "request", id |-> StrayID, seq |-> 1, from |-> "target"],
      [type |-> "other", id |-> 0, seq |-> 0, from |-> "target"],
      [type |-> "bad", id |-> 0, seq |-> 0, from |-> "target"] }
    \cup { [type |-> "reply", id |-> i, seq |-> 1, from |-> "other"] : i \in clients }

NextSingle ==
    \/ \E i \in clients : SingleSend(i)
    \/ \E i \in clients : SingleRecv(i)
    \/ \E i \in clients : SingleTimeout(i)
    \/ \E i \in clients : SingleWake(i)
    \/ SingleServerReadError
    \/ SingleServerRead
    \/ SingleSignal
    \/ \E p \in SingleReplies \cup SingleForeign : Arrive(p)

SpecSingle == InitSingle /\ [][NextSingle]_vars

\* ------------------------------------- single-target program, long-running
\* The counter values a long-running client is picked up at: the last value
\* that fits the 16-bit sequence field.
SeqStarts == { 65535 }

\* The single-target program after processSeq - 1 iterations, each ended by a
\* matching reply: flag false, nothing recorded but the start.
InitWrap ==
    /\ pingIPs = <<"10.0.0.1">>
    /\ \E processID \in ProcessIDs : clients = {processID}
    /\ pc = [i \in clients |-> "send"]
    /\ \E s \in SeqStarts :
        /\ processSeq = [i \in clients |-> s]
        /\ wire = [i \in clients |-> {WireSeq(s - 1)}]
    /\ outage = [i \in clients |-> FALSE]
    /\ srv = Idle
    /\ sock = <<>>
    /\ log = [i \in clients \cup {0} |-> IF i = 0 THEN <<"start">> ELSE <<>>]
    /\ sinkFailed = FALSE
    /\ proc = "running"
    /\ faults = 0
    /\ seen = [i \in clients |-> {"match"}]

\* pingClient (single-target), top of the loop, for MaxSeq further iterations.
WrapSend(i) ==
    /\ proc = "running"
    /\ pc[i] = "send"
    /\ \E s \in SeqStarts : processSeq[i] < s + MaxSeq
    /\ \/ SendWith(i, TRUE, TRUE, TRUE, TRUE)
       \/ /\ faults < MaxFaults
          /\ \E mOK \in BOOLEAN, wOK \in BOOLEAN, s1 \in BOOLEAN, s2 \in BOOLEAN :
              /\ ~(mOK /\ wOK)
              /\ mOK => s1
              /\ wOK => s2
              /\ SendWith(i, mOK, wOK, s1, s2)

\* Echo replies of the target to the requests of these iterations.
WrapReplies ==
    { [type |-> "reply", id |-> i, seq |-> WireSeq(s + k), from |-> "target"] :
        i \in clients, s \in SeqStarts, k \in (0 - 1) .. MaxSeq }

NextWrap ==
    \/ \E i \in clients : WrapSend(i)
    \/ \E i \in clients : SingleRecv(i)
    \/ \E i \in clients : SingleTimeout(i)
    \/ \E i \in clients : SingleWake(i)
    \/ SingleServerReadError
    \/ SingleServerRead
    \/ SingleSignal
    \/ \E p \in WrapReplies \cup SingleForeign : Arrive(p)

SpecWrap == InitWrap /\ [][NextWrap]_vars

\* ===================================================================== claims
\* Steps of client i, told by what they change.
Added(i) == SubSeq(log'[i], Len(log[i]) + 1, Len(log'[i]))

\* A select of client i ends and the process goes on.
Resolved(i) == pc[i] = "wait" /\ pc'[i] # "wait" /\ proc' = "running"

\* ... by a packet taken from the control channel.
ByReply(i) == Resolved(i) /\ srv.pc = "handoff" /\ srv.to = i /\ srv'.pc = "read"

\* ... by the 1900 ms timer.
ByTimeout(i) == Resolved(i) /\ srv' = srv

\* The reply taken matches the outstanding request in identifier and sequence.
Matched(i) == ByReply(i) /\ srv.pkt.id = i /\ srv.pkt.seq = WireSeq(processSeq[i])

OutageEvent(e) == e \in {"detected", "cleared"}

OutageEvents(l) == SelectSeq(l, OutageEvent)

Range(l) == { l[k] : k \in 1 .. Len(l) }

\* C1 (edge-only emission, multi-target): in every step that ends a select,
\* "detected" is recorded iff the flag was false and the timer fired, "cleared"
\* iff the flag was true and a reply with the client's identifier was taken,
\* and a step that leaves the flag as it was records no outage event.
C1_EdgeOnlyEmission ==
    [][\A i \in clients : Resolved(i) =>
          /\ (Added(i) = <<"detected">>) <=> (~outage[i] /\ ByTimeout(i))
          /\ (Added(i) = <<"cleared">>) <=> (outage[i] /\ ByReply(i) /\ srv.pkt.id = i)
          /\ Added(i) \in {<<>>, <<"detected">>, <<"cleared">>}
          /\ (outage'[i] = outage[i]) => (Added(i) = <<>>)]_vars

\* C1 witness: a client has recorded a detection and then its clearing.
C1_Witness == \E i \in clients : OutageEvents(log[i]) = <<"detected", "cleared">>

\* C2 (sequence advances only on a matched reply, multi-target): processSeq
\* changes only in a step that takes a matching reply; a timeout keeps it.
C2_SeqOnlyOnMatch ==
    [][\A i \in clients : (processSeq'[i] # processSeq[i]) => Matched(i)]_vars

\* C3 (routing, multi-target): an echo with identifier X is handed to the
\* channel registered under X and taken only by client X; a parsed message
\* whose identifier is no registry key is dropped, changing no client and
\* recording nothing.
C3_Routing ==
    [][/\ (srv.pc = "read" /\ srv'.pc = "handoff") =>
            /\ srv'.pkt.id = Head(sock).id
            /\ srv'.to = srv'.pkt.id
            /\ srv'.to \in clients
       /\ \A i \in clients : ByReply(i) => srv.pkt.id = i
       /\ (/\ srv.pc = "read" /\ sock # <<>> /\ sock' = Tail(sock) /\ proc' = "running"
           /\ ~ParseFails(Head(sock)) /\ Head(sock).id \notin clients) =>
            /\ srv' = srv
            /\ UNCHANGED <<pc, processSeq, outage, log, seen>>]_vars

\* C3 witness: with two clients registered, a packet waits on the second one's channel.
C3_Witness ==
    /\ Cardinality(clients) = 2
    /\ srv.pc = "handoff"
    /\ srv.to = 2
    /\ pc[1] = "wait"

\* C4 (timeout determinism): a client that has taken no packet from its channel
\* has recorded exactly one "detected" once it has timed out, however often.
C4_TimeoutDeterminism ==
    \A i \in clients : seen[i] \subseteq {"timeout"} =>
        OutageEvents(log[i]) = IF "timeout" \in seen[i] THEN <<"detected">> ELSE <<>>

\* C4 witness: two timeouts and no reply.
C4_Witness ==
    \E i \in clients : seen[i] = {"timeout"} /\ processSeq[i] = 3 /\ proc = "running"

\* C5 (no false outage): a client whose every select so far ended with a
\* matching reply has recorded no outage event and its flag is false.
C5_NoFalseOutage ==
    \A i \in clients : seen[i] \subseteq {"match"} =>
        /\ ~outage[i]
        /\ OutageEvents(log[i]) = <<>>

\* C5 witness: two iterations, each ended by a matching reply.
C5_Witness ==
    \E i \in clients : seen[i] = {"match"} /\ processSeq[i] = 3 /\ proc = "running"

\* C6 (strict match, multi-target): a reply whose sequence is not the
\* outstanding one leaves the flag as it was and records nothing.
C6_StrictMatch ==
    [][\A i \in clients : (ByReply(i) /\ ~Matched(i)) =>
          /\ outage'[i] = outage[i]
          /\ Added(i) = <<>>]_vars

\* C7 (one outstanding request): a client leaves its select, towards the next
\* send, only by a matching reply or by the timer.
C7_OneOutstanding ==
    [][\A i \in clients : Resolved(i) => (ByTimeout(i) \/ Matched(i))]_vars

\* C8 (immediate retry, multi-target): the 900 ms sleep is entered only after
\* a matching reply, never after a timeout.
C8_NoSleepAfterTimeout ==
    [][\A i \in clients : (pc[i] # "sleep" /\ pc'[i] = "sleep") => Matched(i)]_vars

\* C9 (sink failure is fatal): a failed write ends the process with every
\* task; from then on nothing is sent, delivered or recorded.
C9_SinkFailureFatal ==
    [][/\ sinkFailed' => (proc' = "exit1" /\ srv'.pc = "exited"
                          /\ \A i \in clients : pc'[i] = "exited")
       /\ sinkFailed => UNCHANGED vars]_vars

\* C9 witness: a write failed after a client had completed an iteration.
C9_Witness == sinkFailed /\ \E i \in clients : processSeq[i] > 1

\* Client i runs the top of its loop (marshal, write) and the process goes on.
SendStep(i) ==
    /\ pc[i] = "send"
    /\ proc' = "running"
    /\ pc'[i] # pc[i] \/ log'[i] # log[i]

\* C10 (send failure is not fatal): a send step, failed or not, takes the
\* client to its select with flag and sequence as they were, stops no other
\* task, and records an error event exactly when it failed.
C10_SendFailureNonFatal ==
    [][\A i \in clients : SendStep(i) =>
          /\ pc'[i] = "wait"
          /\ outage'[i] = outage[i]
          /\ processSeq'[i] = processSeq[i]
          /\ srv' = srv
          /\ \A j \in clients \ {i} : pc'[j] = pc[j] /\ outage'[j] = outage[j]
          /\ (faults' # faults) <=>
                Added(i) \in {<<"marshalErr">>, <<"sendErr">>, <<"marshalErr", "sendErr">>}
          /\ (faults' = faults) <=> (Added(i) = <<>>)]_vars

\* C10 witness: after a failed write the client waited, timed out like any
\* other iteration and sent again.
C10_Witness ==
    \E i \in clients :
        /\ log[i] = <<"sendErr", "detected">>
        /\ processSeq[i] = 2
        /\ pc[i] = "wait"

\* The receiver fails on a read or on a parse and the process goes on: told by
\* the record it writes, and for a parse by the datagram it consumes.
ReceiverError ==
    /\ proc' = "running"
    /\ \/ log'[0] # log[0]
       \/ srv.pc = "read" /\ sock # <<>> /\ Head(sock).type = "bad" /\ sock' = Tail(sock)

\* C11 (receiver errors are transient): a failed read or parse records exactly
\* one error event, hands nothing to any client, changes no client's state or
\* log, and leaves the receiver at the top of its loop, ready to read the next
\* datagram; a failed parse consumes the datagram, a failed read none.
C11_ReceiverErrorsTransient ==
    [][ReceiverError =>
          /\ Added(0) \in {<<"readErr">>, <<"parseErr">>}
          /\ (Added(0) = <<"parseErr">>) <=> (sock' # sock)
          /\ srv.pc = "read"
          /\ srv' = Idle
          /\ UNCHANGED <<pc, processSeq, outage, seen, wire, clients>>
          /\ \A i \in clients : log'[i] = log[i]]_vars

\* C11 witness: the receiver has recorded an error and has since read a reply
\* that matches the outstanding request of a client waiting in its select.
C11_Witness ==
    /\ \E e \in {"readErr", "parseErr"} : log[0] = <<"start", e>>
    /\ srv.pc = "handoff"
    /\ pc[srv.to] = "wait"
    /\ Classify(srv.to, processSeq[srv.to], srv.pkt) = "match"

\* The registry as main built it: one key per validated target, and one client
\* task, with its own counter and flag, under each key.
RegistryBuilt ==
    /\ clients = Registry(pingIPs)
    /\ Cardinality(clients) = Len(pingIPs)
    /\ DOMAIN pc = clients
    /\ DOMAIN processSeq = clients
    /\ DOMAIN outage = clients
    /\ srv.pc = "handoff" => (srv.to \in clients /\ srv.to = srv.pkt.id)

\* C12 (registry invariant): the keys given to the targets of the list are
\* pairwise distinct (as many keys as targets), every client task runs under
\* a registry key and every handoff uses the channel of the key the packet
\* carries, and no step changes the target list or the set of keys.
C12_RegistryInvariant ==
    /\ []RegistryBuilt
    /\ [][clients' = clients /\ pingIPs' = pingIPs]_vars

\* C12 witness: two targets were registered and both clients have sent.
C12_Witness ==
    /\ Len(pingIPs) = 2
    /\ \A i \in clients : wire[i] # {}
    /\ srv.pc = "handoff"

\* C13 (only echo replies are routed): a datagram that is not an echo reply,
\* an echo request carrying a registered identifier included, is dropped by
\* the receiver and never offered on a client's channel.
C13_OnlyRepliesRouted ==
    [][(srv.pc = "read" /\ sock # <<>> /\ sock' = Tail(sock) /\ Head(sock).type # "reply")
          => srv'.pc # "handoff"]_vars

\* The receiver is blocked in the send on the channel of client a, which is
\* not in its select, while a reply to a request of client b heads the socket.
HeadOfLine(a, b) ==
    /\ a # b
    /\ srv.pc = "handoff"
    /\ srv.to = a
    /\ pc[a] \in {"sleep", "send"}
    /\ sock # <<>>
    /\ Head(sock).type = "reply"
    /\ Head(sock).id = b
    /\ Head(sock).seq \in wire[b]

\* C14 (head-of-line blocking): while the receiver is blocked in a handoff,
\* every step other than that client's receive leaves the receiver where it
\* is and takes nothing from the socket, so a reply queued behind it stays
\* undelivered; and a timeout of its addressee in that interval, from the
\* flag false, records "detected" with the reply still in the socket.
C14_HeadOfLineBlocking ==
    [][/\ (srv.pc = "handoff" /\ proc' = "running" /\ ~ByReply(srv.to)) =>
            /\ srv' = srv
            /\ Len(sock') >= Len(sock)
            /\ SubSeq(sock', 1, Len(sock)) = sock
       /\ \A a \in clients, b \in clients :
            (HeadOfLine(a, b) /\ ByTimeout(b) /\ ~outage[b]) =>
                /\ Added(b) = <<"detected">>
                /\ outage'[b]
                /\ HeadOfLine(a, b)']_vars

\* C14 witness: a has timed out and sleeps while its late reply blocks the
\* receiver; the reply to b's outstanding request is in the socket behind it,
\* b is in its select with the flag false, and b's
\* timer can fire there, recording the outage.
C14_Witness ==
    \E a \in clients, b \in clients :
        /\ HeadOfLine(a, b)
        /\ srv.pkt.seq \in wire[a]
        /\ pc[a] = "sleep"
        /\ pc[b] = "wait"
        /\ ~outage[b]
        /\ Head(sock).seq = WireSeq(processSeq[b])
        /\ ENABLED (Timeout(b) /\ log'[b] = Append(log[b], "detected") /\ sock' = sock /\ srv' = srv)

\* C15 (recovery by a late reply): a client that started at sequence 1 with
\* the flag false and whose only select so far ended by the timer takes the
\* reply to request 1 in its next select: its outage events are then one
\* "detected" followed by one "cleared", and its sequence counter is 2.
C15_LateReplyRecovery ==
    [][\A i \in clients :
          (/\ ByReply(i)
           /\ seen[i] = {"timeout"}
           /\ processSeq[i] <= 2
           /\ srv.pkt = [id |-> i, seq |-> WireSeq(1)]) =>
              /\ Added(i) = <<"cleared">>
              /\ OutageEvents(log'[i]) = <<"detected", "cleared">>
              /\ processSeq'[i] = 2]_vars

\* C16 (sequence on the wire, single-target): the sequence written into an
\* echo request is the client's counter, also once the counter has passed
\* 2^16, and a reply echoing the written sequence is taken as the match: the
\* counter advances and the client goes to its sleep.
C16_WireSeqIsCounter ==
    [][\A i \in clients :
          /\ (pc[i] = "send" /\ wire'[i] # wire[i]) => wire'[i] = wire[i] \cup {processSeq[i]}
          /\ Matched(i) => (processSeq'[i] = processSeq[i] + 1 /\ pc'[i] = "sleep")]_vars

\* C17 (no terminal state): under fair scheduling every behaviour either ends
\* the process, by a signal or a sink failure, or takes every client through
\* all the iterations the model follows, whatever replies, timeouts, send
\* failures and receiver stalls occur; and the process ends in no other way.
C17_NoTerminalState ==
    /\ <>(proc # "running" \/ \A i \in clients : processSeq[i] > MaxSeq)
    /\ [][proc' # proc => (sinkFailed' \/ Added(0) = <<"signal">>)]_vars

\* C17 witness: the process runs, both clients are through their iterations,
\* one of them after a failed send and one after a stalled receiver's late
\* packet.
C17_Witness ==
    /\ proc = "running"
    /\ Cardinality(clients) = 2
    /\ \A i \in clients : processSeq[i] = MaxSeq + 1
    /\ \E i \in clients : "sendErr" \in Range(log[i])
    /\ \E i \in clients : "stale" \in seen[i]

\* C19 (the receiver never stalls forever): under fair scheduling a handoff to
\* a client that still has an iteration to run completes (or the process
\* ends): the client comes back to its select and takes the packet, after
\* which the receiver is at ReadFrom again.
C19_HandoffCompletes ==
    (srv.pc = "handoff" /\ processSeq[srv.to] <= MaxSeq) ~> (srv.pc # "handoff")

\* C19 witness: a handoff that found its client asleep has been taken in the
\* client's next select, and the receiver has read the next datagram since.
C19_Witness ==
    /\ proc = "running"
    /\ srv.pc = "handoff"
    /\ \E i \in clients \ {srv.to} : seen[i] = {"timeout", "stale"} /\ processSeq[i] = 3

\* A step of client i: its position in the loop changes.
StepOf(i) == pc'[i] # pc[i] /\ proc' = "running"

\* C18 (probe state is private): a step of one client leaves the flag and the
\* counter of every other client as they were; a flag or a counter changes
\* only in a step of its own client, at the end of that client's select; and
\* a step of the receiver changes no flag and no counter.
C18_ProbeStatePrivate ==
    [][/\ \A i \in clients : \A j \in clients \ {i} :
            StepOf(i) => (outage'[j] = outage[j] /\ processSeq'[j] = processSeq[j])
       /\ \A i \in clients :
            (outage'[i] # outage[i] \/ processSeq'[i] # processSeq[i]) => Resolved(i)
       /\ (srv.pc = "read" /\ (srv' # srv \/ Len(sock') < Len(sock) \/ log'[0] # log[0])) =>
            UNCHANGED <<outage, processSeq>>]_vars

\* C18 witness: one client is in an outage and a step behind, the other has
\* had two matching replies.
C18_Witness ==
    /\ proc = "running"
    /\ Cardinality(clients) = 2
    /\ outage[1] /\ processSeq[1] = 2 /\ seen[1] = {"timeout"}
    /\ ~outage[2] /\ processSeq[2] = 3 /\ seen[2] = {"match"}

\* How often event e occurs in the log l.
Count(l, e) == Cardinality({ k \in 1 .. Len(l) : l[k] = e })

\* C20 (alternation of outage events): the outage events recorded for one
\* target alternate, "detected" first and never the same event twice in a
\* row, and the number of "detected" less the number of "cleared" is 1 while
\* the client's flag is true and 0 while it is false.
C20_OutageEventsAlternate ==
    \A i \in clients :
        LET ev == OutageEvents(log[i]) IN
        /\ \A k \in 1 .. Len(ev) : ev[k] = IF k % 2 = 1 THEN "detected" ELSE "cleared"
        /\ Count(ev, "detected") - Count(ev, "cleared") = IF outage[i] THEN 1 ELSE 0

\* C20 witness: with two targets, one client is back to no outage after a
\* detection and its clearing while the other is in an outage.
C20_Witness ==
    /\ Cardinality(clients) = 2
    /\ OutageEvents(log[1]) = <<"detected", "cleared">> /\ ~outage[1]
    /\ OutageEvents(log[2]) = <<"detected">> /\ outage[2]

====
